---- MODULE Spec2Model ----
(***************************************************************************)
(* Model of the task tracker: the in-memory store of TaskTracker           *)
(* (src/task_tracker/task_tracker.py), its JSON cache file, and the        *)
(* operations add / update / delete / mark_status / list_by_status /       *)
(* load / save.                                                            *)
(*                                                                         *)
(* Representation                                                          *)
(*   - a Python str holding a task ID is a sequence of characters, so that *)
(*     str(n) and int(s) are real conversions ("01" and "1" are different  *)
(*     keys with the same int value);                                      *)
(*   - a Python dict is an insertion-ordered sequence of <<key, value>>    *)
(*     pairs;                                                              *)
(*   - a task is the positional list <<createdAt, updatedAt, status,       *)
(*     description>> the code keeps in self._tasks;                        *)
(*   - a timestamp is the reading of a clock that never goes backwards.    *)
(***************************************************************************)
EXTENDS Integers, Sequences, FiniteSets, TLC

VARIABLES
    tasks,      \* self._tasks: ordered dict, id string -> 4-element list
    new_id,     \* self._new_id
    file,       \* the cache file self._cache_file: [kind, data]
    now,        \* the clock read by datetime.now()
    last,       \* the last call on the store: arguments, clock, report, result
    adds,       \* history: number of add calls on this store object
    added,      \* history: the IDs add returned since the mapping was last replaced
    loads,      \* history: number of load calls on this store object
    deleted,    \* history: IDs removed by delete from this store object
    maxSeen,    \* history: largest ID ever present in this store object
    snap,       \* history: the store contents written by the last save
    steps       \* history: number of calls made so far

vars == <<tasks, new_id, file, now, last, adds, added, loads, deleted, maxSeen, snap, steps>>

(***************************************************************************)
(* Bounds of the model.                                                    *)
(***************************************************************************)
MaxSteps == 4       \* calls explored in one behaviour
MaxTime == 1        \* clock readings 0..MaxTime

(***************************************************************************)
(* Class attributes.                                                       *)
(***************************************************************************)
task_properties == <<"id", "createdAt", "updatedAt", "status", "description">>

task_statuses == <<"todo", "in-progress", "done">>

Range(s) == {s[i] : i \in 1..Len(s)}

(***************************************************************************)
(* str(int) and int(str) on decimal strings.                               *)
(***************************************************************************)
Digits == <<"0", "1", "2", "3", "4", "5", "6", "7", "8", "9">>

RECURSIVE Str(_)
Str(n) == IF n < 10 THEN <<Digits[n + 1]>>
          ELSE Str(n \div 10) \o <<Digits[(n % 10) + 1]>>

DigitVal(c) == CHOOSE d \in 0..9 : Digits[d + 1] = c

\* int(s) succeeds (on the strings explored: they hold digits or letters)
IsDecimal(s) == Len(s) > 0 /\ \A i \in 1..Len(s) : s[i] \in Range(Digits)

RECURSIVE ToInt(_)
ToInt(s) == IF Len(s) = 1 THEN DigitVal(s[1])
            ELSE 10 * ToInt(SubSeq(s, 1, Len(s) - 1)) + DigitVal(s[Len(s)])

(***************************************************************************)
(* Insertion-ordered dict operations.                                      *)
(***************************************************************************)
Keys(d) == {d[i][1] : i \in 1..Len(d)}

KeyList(d) == [i \in 1..Len(d) |-> d[i][1]]

IndexOf(d, k) == CHOOSE i \in 1..Len(d) : d[i][1] = k

DictGet(d, k) == d[IndexOf(d, k)][2]

\* d[k] = v: an existing key keeps its position, a new key goes last
DictSet(d, k, v) ==
    IF k \in Keys(d) THEN [d EXCEPT ![IndexOf(d, k)] = <<k, v>>]
    ELSE Append(d, <<k, v>>)

\* d.pop(k) for a key that is present
DictPop(d, k) ==
    LET i == IndexOf(d, k)
    IN  SubSeq(d, 1, i - 1) \o SubSeq(d, i + 1, Len(d))

\* list(d.values())
Values(d) == [i \in 1..Len(d) |-> d[i][2]]

\* dict(zip(names, values)): stops at the shorter of the two
Zip(names, values) ==
    LET n == IF Len(names) < Len(values) THEN Len(names) ELSE Len(values)
    IN  [i \in 1..n |-> <<names[i], values[i]>>]

Max(S) == CHOOSE x \in S : \A y \in S : y <= x

(***************************************************************************)
(* The cache file.  Its content is either missing, text that the JSON      *)
(* parser rejects, or a parsed top-level mapping: an ordered dict from key *)
(* string to an ordered dict from field name to value.  Two more shapes    *)
(* parse but are no such mapping: a top-level value that is no mapping     *)
(* ("nonmapping": a list, a number) and a mapping with a value that is no  *)
(* mapping ("scalarvalue": {"1": "x"}).                                    *)
(***************************************************************************)
Absent == [kind |-> "absent", data |-> <<>>]

Invalid == [kind |-> "invalid", data |-> <<>>]

Json(d) == [kind |-> "json", data |-> d]

NonMapping == [kind |-> "nonmapping", data |-> <<>>]

ScalarValue == [kind |-> "scalarvalue", data |-> <<>>]

Rec(c, u, s, d) ==
    <<<<"createdAt", c>>, <<"updatedAt", u>>, <<"status", s>>, <<"description", d>>>>

\* contents the cache file may hold before the program first touches it
InitFiles ==
    { Absent,
      Invalid,
      Json(<<>>),
      Json(<< <<Str(1), Rec(0, 0, "done", "a")>> >>),
      Json(<< <<Str(2), Rec(0, 0, "todo", "b")>>,
              <<Str(1), Rec(0, 0, "done", "a")>> >>) }

\* contents written by something else than this program: keys out of order,
\* a status outside task_statuses, shapes that are not the expected format
OpenFiles ==
    { Json(<< <<Str(3), Rec(0, 0, "todo", "b")>>,
              <<Str(1), Rec(0, 0, "done", "a")>> >>),
      Json(<< <<Str(1), Rec(0, 0, "bogus", "a")>> >>),
      Json(<< <<<<"x">>, Rec(0, 0, "todo", "a")>> >>),
      NonMapping,
      ScalarValue }

\* contents this program leaves behind when the file was absent at first:
\* load creates {}; add, save leaves {"1"}; three adds, delete("2"), save
\* leaves {"1", "3"}
ClosedFiles ==
    { Absent,
      Json(<<>>),
      Json(<< <<Str(1), Rec(0, 0, "todo", "a")>> >>),
      Json(<< <<Str(1), Rec(0, 0, "done", "a")>>,
              <<Str(3), Rec(0, 0, "todo", "b")>> >>) }

(***************************************************************************)
(* Arguments explored.                                                     *)
(***************************************************************************)
Descriptions == {"a", "b"}

\* IDs given by callers: canonical decimals, and "01", whose int value is 1
IdArgs == {Str(1), Str(2), <<"0", "1">>}

StatusArgs == Range(task_statuses) \cup {"bogus"}

FilterArgs == Range(task_statuses) \cup {"", "not-done", "all", "bogus"}

NoId == <<>>

\* err is what the call reports ("" when it reports nothing), ret what it returns
Call(op, id, arg, err, ret) ==
    [op |-> op, id |-> id, arg |-> arg, at |-> now, err |-> err, ret |-> ret]

\* one more call is made
Step ==
    /\ steps < MaxSteps
    /\ steps' = steps + 1

(***************************************************************************)
(* TaskTracker.__init__: a new store object on the same cache file.        *)
(***************************************************************************)
Construct ==
    /\ Step
    /\ tasks' = <<>>
    /\ new_id' = 1
    /\ last' = Call("construct", NoId, "", "", <<>>)
    /\ adds' = 0
    /\ added' = <<>>
    /\ loads' = 0
    /\ deleted' = {}
    /\ maxSeen' = 0
    /\ UNCHANGED <<file, now, snap>>

Init ==
    /\ tasks = <<>>
    /\ new_id = 1
    /\ file \in InitFiles
    /\ now = 0
    /\ last = Call("construct", NoId, "", "", <<>>)
    /\ adds = 0
    /\ added = <<>>
    /\ loads = 0
    /\ deleted = {}
    /\ maxSeen = 0
    /\ snap = [by_save |-> FALSE, tasks |-> <<>>, pure |-> FALSE, over |-> ""]
    /\ steps = 0

\* time passes between two calls
Tick ==
    /\ now < MaxTime
    /\ now' = now + 1
    /\ UNCHANGED <<tasks, new_id, file, last, adds, added, loads, deleted, maxSeen, snap, steps>>

(***************************************************************************)
(* TaskTracker.load                                                        *)
(***************************************************************************)
\* {id: list(task.values()) for id, task in tasks.items()}
LoadTasks(data) == [i \in 1..Len(data) |-> <<data[i][1], Values(data[i][2])>>]

\* mutant of LoadNewId: the first item of the dict is taken
LoadNewIdFirstKey(data) == ToInt(data[1][1]) + 1

\* int(tasks.popitem()[0]) + 1: popitem takes the last item of the dict
LoadNewId(data) == ToInt(data[Len(data)][1]) + 1

KeyInts(d) == {ToInt(k) : k \in {x \in Keys(d) : IsDecimal(x)}}

\* mutant of LoadResult: a file that does not parse empties the store
LoadResultClearing ==
    IF file.kind = "absent"
    THEN [tasks |-> tasks, new_id |-> new_id, file |-> Json(<<>>), err |-> ""]
    ELSE IF file.kind = "invalid"
    THEN [tasks |-> <<>>, new_id |-> 1, file |-> file, err |-> "CorruptedStorage"]
    ELSE IF file.kind \in {"nonmapping", "scalarvalue"}
    THEN \* tasks.items() or task.values() raises before self._tasks is assigned
         [tasks |-> tasks, new_id |-> new_id, file |-> file,
          err |-> "raise AttributeError"]
    ELSE IF file.data # <<>> /\ ~IsDecimal(file.data[Len(file.data)][1])
    THEN \* int() raises after self._tasks was assigned
         [tasks |-> LoadTasks(file.data), new_id |-> new_id, file |-> file,
          err |-> "raise ValueError"]
    ELSE [tasks |-> LoadTasks(file.data),
          new_id |-> IF file.data # <<>> THEN LoadNewId(file.data) ELSE new_id,
          file |-> file, err |-> ""]

\* mutant of LoadResult: a file that does not parse is rewritten as {}
LoadResultRewriting ==
    IF file.kind = "absent"
    THEN [tasks |-> tasks, new_id |-> new_id, file |-> Json(<<>>), err |-> ""]
    ELSE IF file.kind = "invalid"
    THEN [tasks |-> tasks, new_id |-> new_id, file |-> Json(<<>>),
          err |-> "CorruptedStorage"]
    ELSE IF file.kind \in {"nonmapping", "scalarvalue"}
    THEN [tasks |-> tasks, new_id |-> new_id, file |-> file,
          err |-> "raise AttributeError"]
    ELSE IF file.data # <<>> /\ ~IsDecimal(file.data[Len(file.data)][1])
    THEN [tasks |-> LoadTasks(file.data), new_id |-> new_id, file |-> file,
          err |-> "raise ValueError"]
    ELSE [tasks |-> LoadTasks(file.data),
          new_id |-> IF file.data # <<>> THEN LoadNewId(file.data) ELSE new_id,
          file |-> file, err |-> ""]

\* the store, the file and the report load leaves behind
LoadResult ==
    IF file.kind = "absent"
    THEN [tasks |-> tasks, new_id |-> new_id, file |-> Json(<<>>), err |-> ""]
    ELSE IF file.kind = "invalid"
    THEN [tasks |-> tasks, new_id |-> new_id, file |-> file,
          err |-> "CorruptedStorage"]
    ELSE IF file.kind \in {"nonmapping", "scalarvalue"}
    THEN \* tasks.items() or task.values() raises before self._tasks is assigned
         [tasks |-> tasks, new_id |-> new_id, file |-> file,
          err |-> "raise AttributeError"]
    ELSE IF file.data # <<>> /\ ~IsDecimal(file.data[Len(file.data)][1])
    THEN \* int() raises after self._tasks was assigned
         [tasks |-> LoadTasks(file.data), new_id |-> new_id, file |-> file,
          err |-> "raise ValueError"]
    ELSE [tasks |-> LoadTasks(file.data),
          new_id |-> IF file.data # <<>> THEN LoadNewId(file.data) ELSE new_id,
          file |-> file, err |-> ""]

Load ==
    /\ Step
    /\ tasks' = LoadResult.tasks
    /\ new_id' = LoadResult.new_id
    /\ file' = LoadResult.file
    /\ last' = Call("load", NoId, "", LoadResult.err, <<>>)
    /\ loads' = loads + 1
    /\ maxSeen' = Max({maxSeen} \cup KeyInts(tasks'))
    /\ added' = IF LoadResult.tasks = tasks THEN added ELSE <<>>
    /\ UNCHANGED <<now, adds, deleted, snap>>

(***************************************************************************)
(* TaskTracker.save                                                        *)
(***************************************************************************)
\* mutant of SaveData: the slice of the field names starts one too far
SaveDataShortSlice(d) ==
    [i \in 1..Len(d) |-> <<d[i][1], Zip(Tail(Tail(task_properties)), d[i][2])>>]

\* {id: dict(zip(task_properties[1:], task)) for id, task in self._tasks.items()}
SaveData(d) == [i \in 1..Len(d) |-> <<d[i][1], Zip(Tail(task_properties), d[i][2])>>]

\* mutant of Save: a file that does not parse is left as it is
SaveUnlessCorrupted ==
    /\ Step
    /\ file' = IF file.kind = "invalid" THEN file ELSE Json(SaveData(tasks))
    /\ last' = Call("save", NoId, "", "", <<>>)
    /\ snap' = [by_save |-> TRUE, tasks |-> tasks, pure |-> loads = 0,
                over |-> file.kind]
    /\ UNCHANGED <<tasks, new_id, now, adds, added, loads, deleted, maxSeen>>

Save ==
    /\ Step
    /\ file' = Json(SaveData(tasks))
    /\ last' = Call("save", NoId, "", "", <<>>)
    /\ snap' = [by_save |-> TRUE, tasks |-> tasks, pure |-> loads = 0,
                over |-> file.kind]
    /\ UNCHANGED <<tasks, new_id, now, adds, added, loads, deleted, maxSeen>>

(***************************************************************************)
(* TaskTracker.add                                                         *)
(***************************************************************************)
\* mutant of AddId: the ID is derived from the number of tasks held
AddIdFromCount == Str(Len(tasks) + 1)

\* id := str(self._new_id)
AddId == Str(new_id)

\* self._tasks[id] = [time, time, "todo", description]
AddTasks(description) ==
    DictSet(tasks, AddId, <<now, now, "todo", description>>)

AddCall(description) ==
    /\ Step
    /\ tasks' = AddTasks(description)
    /\ new_id' = new_id + 1
    /\ last' = Call("add", NoId, description, "", AddId)
    /\ adds' = adds + 1
    /\ added' = Append(added, AddId)
    /\ maxSeen' = Max({maxSeen} \cup KeyInts(tasks'))
    /\ UNCHANGED <<file, now, loads, deleted, snap>>

Add == \E description \in Descriptions : AddCall(description)

(***************************************************************************)
(* TaskTracker.update                                                      *)
(***************************************************************************)
\* mutant of UpdateTask: the time is written at createdAt's index
UpdateTaskWrongIndex(task, description) ==
    [task EXCEPT ![1] = now, ![4] = description]

\* self._tasks[id][1] = now; self._tasks[id][3] = description
UpdateTask(task, description) == [task EXCEPT ![2] = now, ![4] = description]

UpdateCall(id, description) ==
    /\ Step
    /\ IF id \notin Keys(tasks)
       THEN /\ last' = Call("update", id, description, "UnknownTaskID", <<>>)
            /\ UNCHANGED tasks
       ELSE /\ tasks' = DictSet(tasks, id, UpdateTask(DictGet(tasks, id), description))
            /\ last' = Call("update", id, description, "", <<>>)
    /\ UNCHANGED <<new_id, file, now, adds, added, loads, deleted, maxSeen, snap>>

Update ==
    \E id \in IdArgs, description \in Descriptions : UpdateCall(id, description)

(***************************************************************************)
(* TaskTracker.delete                                                      *)
(***************************************************************************)
Delete ==
    \E id \in IdArgs :
        /\ Step
        /\ IF id \notin Keys(tasks)
           THEN /\ last' = Call("delete", id, "", "UnknownTaskID", <<>>)
                /\ UNCHANGED <<tasks, deleted>>
           ELSE /\ tasks' = DictPop(tasks, id)
                /\ deleted' = deleted \cup {id}
                /\ last' = Call("delete", id, "", "", <<>>)
        /\ UNCHANGED <<new_id, file, now, adds, added, loads, maxSeen, snap>>

(***************************************************************************)
(* TaskTracker.mark_status                                                 *)
(***************************************************************************)
\* mutant of MarkTask: the status is written at the description's index
MarkTaskWrongIndex(task, status) == [task EXCEPT ![4] = status]

\* self._tasks[id][2] = status
MarkTask(task, status) == [task EXCEPT ![3] = status]

\* mutant of MarkReport: the status is checked before the ID
MarkReportStatusFirst(id, status) ==
    IF status \notin Range(task_statuses) THEN "InvalidStatus"
    ELSE IF id \notin Keys(tasks) THEN "UnknownTaskID"
    ELSE ""

\* mutant of MarkReport: the status is not checked
MarkReportAnyStatus(id, status) ==
    IF id \notin Keys(tasks) THEN "UnknownTaskID" ELSE ""

\* mutant of MarkReport: a task that is done cannot be marked again
MarkReportDoneFinal(id, status) ==
    IF id \notin Keys(tasks) THEN "UnknownTaskID"
    ELSE IF status \notin Range(task_statuses) THEN "InvalidStatus"
    ELSE IF DictGet(tasks, id)[3] = "done" THEN "InvalidStatus"
    ELSE ""

\* the two checks of mark_status, in the order the code makes them
MarkReport(id, status) ==
    IF id \notin Keys(tasks) THEN "UnknownTaskID"
    ELSE IF status \notin Range(task_statuses) THEN "InvalidStatus"
    ELSE ""

MarkStatus ==
    \E id \in IdArgs, status \in StatusArgs :
        /\ Step
        /\ last' = Call("mark", id, status, MarkReport(id, status), <<>>)
        /\ tasks' = IF MarkReport(id, status) # "" THEN tasks
                     ELSE DictSet(tasks, id, MarkTask(DictGet(tasks, id), status))
        /\ UNCHANGED <<new_id, file, now, adds, added, loads, deleted, maxSeen, snap>>

(***************************************************************************)
(* TaskTracker.list_by_status                                              *)
(***************************************************************************)
\* [id, *task] for each item kept
Rows(d) == [i \in 1..Len(d) |-> <<d[i][1]>> \o d[i][2]]

\* the generator's items, or "None"
ListByStatus(status) ==
    IF status = ""
    THEN [err |-> "", ret |-> Rows(tasks)]
    ELSE IF status = "not-done"
    THEN [err |-> "", ret |-> Rows(SelectSeq(tasks, LAMBDA item : item[2][3] # "done"))]
    ELSE IF status \in Range(task_statuses)
    THEN [err |-> "", ret |-> Rows(SelectSeq(tasks, LAMBDA item : item[2][3] = status))]
    ELSE [err |-> "InvalidFilter", ret |-> <<>>]

List ==
    \E status \in FilterArgs :
        /\ Step
        /\ last' = Call("list", NoId, status, ListByStatus(status).err,
                        ListByStatus(status).ret)
        /\ UNCHANGED <<tasks, new_id, file, now, adds, added, loads, deleted, maxSeen, snap>>

Next ==
    \/ Construct
    \/ Tick
    \/ Load
    \/ Save
    \/ Add
    \/ Update
    \/ Delete
    \/ MarkStatus
    \/ List

Spec == Init /\ [][Next]_vars

\* a freshly constructed store, at clock reading 0
FreshStore ==
    /\ tasks = <<>>
    /\ new_id = 1
    /\ now = 0
    /\ last = Call("construct", NoId, "", "", <<>>)
    /\ adds = 0
    /\ added = <<>>
    /\ loads = 0
    /\ deleted = {}
    /\ maxSeen = 0
    /\ snap = [by_save |-> FALSE, tasks |-> <<>>, pure |-> FALSE, over |-> ""]
    /\ steps = 0

\* the store on a cache file that something else wrote
InitOpen == FreshStore /\ file \in OpenFiles

SpecOpen == InitOpen /\ [][Next]_vars

\* the store on a cache file that only this program has written
InitClosed == FreshStore /\ file \in ClosedFiles

SpecClosed == InitClosed /\ [][Next]_vars

(***************************************************************************)
(* TackCLI: the command loop.  A line is the text after the command word,  *)
(* as cmd.Cmd hands it to the do_ method, a sequence of characters.        *)
(***************************************************************************)
Quotes == {"\"", "'"}

RECURSIVE LStrip(_)
LStrip(s) == IF s # <<>> /\ Head(s) = " " THEN LStrip(Tail(s)) ELSE s

RECURSIVE RStrip(_)
RStrip(s) ==
    IF s # <<>> /\ s[Len(s)] = " " THEN RStrip(SubSeq(s, 1, Len(s) - 1)) ELSE s

\* str.strip()
Strip(s) == RStrip(LStrip(s))

\* a line enclosed in a pair of equal quotes loses them, then is stripped
remove_quote(s) ==
    IF Len(s) >= 2 /\ s[1] \in Quotes /\ s[1] = s[Len(s)]
    THEN Strip(SubSeq(s, 2, Len(s) - 1))
    ELSE s

Spaces(s) == {i \in 1..Len(s) : s[i] = " "}

\* line.split(maxsplit=1) of a line without leading or trailing whitespace
Split1(s) ==
    IF Spaces(s) = {}
    THEN IF s = <<>> THEN <<>> ELSE <<s>>
    ELSE LET i == CHOOSE k \in Spaces(s) : \A m \in Spaces(s) : k <= m
         IN  <<SubSeq(s, 1, i - 1), LStrip(SubSeq(s, i + 1, Len(s)))>>

HelpLines == {<<"-", "h">>, <<"-", "-", "h", "e", "l", "p">>}

\* lines given to the add command
AddLines ==
    { <<>>, <<"-", "h">>, <<"a">>, <<"\"", "a", " ", "\"">>,
      <<"\"", "\"">>, <<"'", " ", "'">> }

\* lines given to the update command
UpdateLines ==
    { <<>>, <<"1">>, <<"1", " ", "b">>, <<"1", " ", " ", "'", "b", "'">>,
      <<"1", " ", "\"", "\"">>, <<"2", " ", "b">> }

\* the startup load has been made and the session has not ended
InLoop == last.op \notin {"construct", "save"}

\* the command prints a message and returns
Rejected(cmd, line) ==
    /\ Step
    /\ last' = Call(cmd, NoId, line, "rejected", <<>>)
    /\ UNCHANGED <<tasks, new_id, file, now, adds, added, loads, deleted, maxSeen, snap>>

\* TackCLI.__init__: the store was constructed, now it is loaded
CliLoad == last.op = "construct" /\ Load

DoAdd ==
    \E line \in AddLines :
        /\ InLoop
        /\ IF line = <<>> \/ line \in HelpLines
           THEN Rejected("do_add", line)
           ELSE AddCall(remove_quote(line))

DoUpdate ==
    \E line \in UpdateLines :
        /\ InLoop
        /\ IF line = <<>> \/ line \in HelpLines \/ Len(Split1(line)) < 2
           THEN Rejected("do_update", line)
           ELSE UpdateCall(Split1(line)[1], remove_quote(Split1(line)[2]))

\* the line is the ID
DoDelete == InLoop /\ Delete

\* the ID and the lower-case status word of the line
DoMark == InLoop /\ MarkStatus

\* the lower-case filter word of the line
DoList == InLoop /\ List

DoExit == InLoop /\ Save

DoEOF == InLoop /\ Save

\* the program is started again after it ended
NewSession == last.op = "save" /\ Construct

\* cache files a first session can find
CliFiles ==
    { Absent, Invalid, Json(<<>>),
      Json(<< <<Str(1), Rec(0, 0, "done", <<"a">>)>> >>) }

InitCLI == FreshStore /\ file \in CliFiles

NextCLI ==
    \/ CliLoad
    \/ Tick
    \/ DoAdd
    \/ DoUpdate
    \/ DoDelete
    \/ DoMark
    \/ DoList
    \/ DoExit
    \/ DoEOF
    \/ NewSession

SpecCLI == InitCLI /\ [][NextCLI]_vars

(***************************************************************************)
(* Properties.                                                             *)
(***************************************************************************)
\* the step is a call (Tick is no call)
IsCall == steps' = steps + 1

\* the set of (id, createdAt, updatedAt, status, description) tuples of a store
TupleSet(d) == Range(Rows(d))

\* C1: on a store that was never loaded, the k-th add call returns the ID k,
\* and the ID it returns is none of the IDs deleted before it.
C1_KthAddReturnsK ==
    (last.op = "add" /\ loads = 0) =>
        (last.ret = Str(adds) /\ last.ret \notin deleted)

\* the second add returned "2" after task "1" had been deleted
C1_Witness ==
    /\ last.op = "add"
    /\ loads = 0
    /\ adds = 2
    /\ deleted = {Str(1)}
    /\ last.ret = Str(2)

\* C2: after every call on a store object the next-ID counter equals (the
\* largest ID ever present in that store, added or loaded) + 1, and no call
\* decreases it.
C2_CounterIsMaxSeenPlusOne ==
    [][(IsCall /\ last'.op # "construct")
        => (new_id' = maxSeen' + 1 /\ new_id' >= new_id)]_vars

\* what load puts into a freshly constructed store from the file that save
\* writes for the store contents d
SaveThenLoad(d) == LoadTasks(SaveData(d))

\* C3: load into a freshly constructed store, of a file written by save from
\* a store state reached by add/update/delete/mark, yields the tuples of that
\* store state and nothing else, whatever the file held before the save.
\* First conjunct: the calls save, construct, load as they happen in a
\* behaviour (a store object whose only load is its last call and which has
\* added nothing was empty, with counter 1, when load was called); second
\* conjunct: what save leaves in the file; third conjunct: the same
\* composition applied to every store state reached without load.
C3_RoundTrip ==
    /\ (last.op = "load" /\ loads = 1 /\ adds = 0 /\ snap.by_save /\ snap.pure)
          => (last.err = "" /\ TupleSet(tasks) = TupleSet(snap.tasks)
              /\ Len(tasks) = Len(snap.tasks))
    /\ (last.op = "save")
          => (file = Json(SaveData(tasks)) /\ snap.tasks = tasks)
    /\ (loads = 0)
          => (TupleSet(SaveThenLoad(tasks)) = TupleSet(tasks)
              /\ Len(SaveThenLoad(tasks)) = Len(tasks))

\* a saved task came back in a new store object that did nothing before load
C3_Witness ==
    /\ last.op = "load"
    /\ loads = 1
    /\ adds = 0
    /\ snap.by_save
    /\ snap.pure
    /\ snap.tasks # <<>>
    /\ tasks = snap.tasks

\* C4: update, delete and mark with an ID that is not in the store report
\* UnknownTaskID and change nothing of the store; for mark, whatever the
\* status argument is.
C4_UnknownIdNoChange ==
    [][(IsCall /\ last'.op \in {"update", "delete", "mark"}
            /\ last'.id \notin Keys(tasks))
        => (last'.err = "UnknownTaskID" /\ UNCHANGED <<tasks, new_id, file>>)]_vars

\* mark of "01" with an invalid status on a store that holds "1"
C4_Witness ==
    /\ last.op = "mark"
    /\ last.id = <<"0", "1">>
    /\ last.arg = "bogus"
    /\ last.err = "UnknownTaskID"
    /\ Str(1) \in Keys(tasks)

\* C5: mark of an existing ID with a status outside task_statuses reports
\* InvalidStatus and changes nothing of the store.
C5_InvalidStatusNoChange ==
    [][(IsCall /\ last'.op = "mark" /\ last'.id \in Keys(tasks)
            /\ last'.arg \notin Range(task_statuses))
        => (last'.err = "InvalidStatus" /\ UNCHANGED <<tasks, new_id, file>>)]_vars

\* mark(id, "bogus") on a task that is there
C5_Witness ==
    /\ last.op = "mark"
    /\ last.arg = "bogus"
    /\ last.err = "InvalidStatus"
    /\ last.id \in Keys(tasks)

\* C6: list_by_status with the filter "all" yields every task, with
\* "not-done" the tasks whose status is not done, with a status the tasks of
\* that status, in the order of the store; any other filter token reports
\* InvalidFilter and yields nothing.  Listing never changes the store.
\* (The empty string is what the command loop passes when no filter is
\* given; it is no filter token and the formula says nothing about it.)
C6_ListByFilter ==
    [][(IsCall /\ last'.op = "list")
        => /\ UNCHANGED <<tasks, new_id, file>>
           /\ last'.arg = "all"
                => (last'.err = "" /\ last'.ret = Rows(tasks))
           /\ last'.arg = "not-done"
                => (last'.err = ""
                    /\ last'.ret = Rows(SelectSeq(tasks,
                                    LAMBDA item : item[2][3] # "done")))
           /\ last'.arg \in Range(task_statuses)
                => (last'.err = ""
                    /\ last'.ret = Rows(SelectSeq(tasks,
                                    LAMBDA item : item[2][3] = last'.arg)))
           /\ last'.arg \notin (Range(task_statuses) \cup {"all", "not-done", ""})
                => (last'.err = "InvalidFilter" /\ last'.ret = <<>>)]_vars

\* C7: after a successful update and after a successful mark the task's
\* updatedAt is the clock reading of that call.
C7_UpdatedAtRefreshed ==
    (last.op \in {"update", "mark"} /\ last.err = "")
        => DictGet(tasks, last.id)[2] = last.at

\* C8: a successful mark leaves the task's createdAt and description as they
\* were, a successful update its createdAt and status; both leave the keys
\* and their order, every other task and the next-ID counter as they were.
C8_MutationFrame ==
    [][(IsCall /\ last'.op \in {"update", "mark"} /\ last'.err = "")
        => /\ KeyList(tasks') = KeyList(tasks)
           /\ new_id' = new_id
           /\ \A k \in Keys(tasks) :
                k # last'.id => DictGet(tasks', k) = DictGet(tasks, k)
           /\ DictGet(tasks', last'.id)[1] = DictGet(tasks, last'.id)[1]
           /\ last'.op = "mark"
                => DictGet(tasks', last'.id)[4] = DictGet(tasks, last'.id)[4]
           /\ last'.op = "update"
                => DictGet(tasks', last'.id)[3] = DictGet(tasks, last'.id)[3]]_vars

\* a mark that changed the status of one of two tasks
C8_Witness ==
    /\ last.op = "mark"
    /\ last.err = ""
    /\ Len(tasks) = 2
    /\ DictGet(tasks, last.id)[3] = "done"
    /\ \E k \in Keys(tasks) : DictGet(tasks, k)[3] = "todo"

\* C9 as claimed: load of a file that does not parse reports
\* CorruptedStorage, leaves the file as it was and leaves the store empty,
\* whatever the store held before.
C9_CorruptedLeavesStoreEmpty ==
    [][(IsCall /\ last'.op = "load" /\ file.kind = "invalid")
        => (last'.err = "CorruptedStorage" /\ file' = file /\ tasks' = <<>>)]_vars

\* C9 as amended: load of a file that does not parse reports
\* CorruptedStorage, leaves the file as it was and leaves the store (tasks
\* and next-ID counter) as it was before the call.
C9_CorruptedLeavesStoreUnchanged ==
    [][(IsCall /\ last'.op = "load" /\ file.kind = "invalid")
        => (last'.err = "CorruptedStorage"
            /\ UNCHANGED <<file, tasks, new_id>>)]_vars

\* load reported CorruptedStorage on a store that holds a task
C9_Witness ==
    /\ last.op = "load"
    /\ last.err = "CorruptedStorage"
    /\ file.kind = "invalid"
    /\ tasks # <<>>

\* C10: after a load that parsed a mapping with at least one key, the
\* next-ID counter is (the numerically largest key) + 1; after a load that
\* parsed an empty mapping it is 1.
C10_CounterAfterLoad ==
    [][(IsCall /\ last'.op = "load" /\ file.kind = "json")
        => /\ file.data # <<>> => new_id' = Max(KeyInts(file.data)) + 1
           /\ file.data = <<>> => new_id' = 1]_vars

\* C11: the status of every task in the store is one of task_statuses,
\* whatever parseable mapping load read.
C11_StatusDomain ==
    \A i \in 1..Len(tasks) : tasks[i][2][3] \in Range(task_statuses)

\* C12: with a clock that never goes backwards and a cache file that only
\* this program has written, every task in the store has
\* updatedAt >= createdAt.
C12_UpdatedNotBeforeCreated ==
    \A i \in 1..Len(tasks) : tasks[i][2][2] >= tasks[i][2][1]

\* a task updated after the clock moved on
C12_Witness ==
    /\ last.op = "update"
    /\ last.err = ""
    /\ DictGet(tasks, last.id)[1] = 0
    /\ DictGet(tasks, last.id)[2] = 1

\* C13: add inserts exactly one task, under the ID the next-ID counter had
\* before the call and that no task of the store had, with createdAt and
\* updatedAt the clock reading, status todo and the given description; it
\* increments the counter by one, returns the ID and leaves every task that
\* was there as it was.
C13_AddInsertsOne ==
    [][(IsCall /\ last'.op = "add")
        => /\ last'.ret = Str(new_id)
           /\ new_id' = new_id + 1
           /\ last'.ret \notin Keys(tasks)
           /\ Len(tasks') = Len(tasks) + 1
           /\ DictGet(tasks', last'.ret) = <<now, now, "todo", last'.arg>>
           /\ \A k \in Keys(tasks) : DictGet(tasks', k) = DictGet(tasks, k)]_vars

\* C14: add, update, delete, mark and list, successful or failing, never
\* change the file; the file changes only through save, and through load
\* when the file does not exist, in which case load creates it holding an
\* empty mapping and leaves the tasks of the store as they were.
C14_PersistenceExplicit ==
    [][/\ (IsCall /\ last'.op \in {"add", "update", "delete", "mark", "list"})
            => file' = file
       /\ file' # file
            => \/ last'.op = "save"
               \/ /\ last'.op = "load"
                  /\ file.kind = "absent"
                  /\ file' = Json(<<>>)
                  /\ tasks' = tasks]_vars

\* load created the file while the store held tasks, and nothing was saved
C14_Witness ==
    /\ last.op = "load"
    /\ file = Json(<<>>)
    /\ tasks # <<>>
    /\ ~snap.by_save

\* C15: for an existing task in any of the three statuses and any of the
\* three statuses as target (all nine pairs, the same status included),
\* mark succeeds and the status of the task afterwards is the target; so
\* every status stays reachable from every status in one call.
C15_AllTransitions ==
    [][(/\ IsCall
        /\ last'.op = "mark"
        /\ last'.id \in Keys(tasks)
        /\ DictGet(tasks, last'.id)[3] \in Range(task_statuses)
        /\ last'.arg \in Range(task_statuses))
        => /\ last'.err = ""
           /\ DictGet(tasks', last'.id)[3] = last'.arg]_vars

\* a task loaded as done was marked todo
C15_Witness ==
    /\ last.op = "mark"
    /\ last.err = ""
    /\ last.arg = "todo"
    /\ loads = 1
    /\ file.kind = "json"
    /\ last.id \in Keys(file.data)
    /\ DictGet(LoadTasks(file.data), last.id)[3] = "done"
    /\ DictGet(tasks, last.id)[3] = "todo"

\* C16: list yields the tasks in the order of the in-memory mapping; tasks
\* added since the store was built or loaded stand in the order of their add
\* calls; tasks obtained by load stand in the order of the keys of the file;
\* update and mark leave every task at its position; save followed by load
\* keeps the order.
C16_ListOrder ==
    [][IsCall
        => /\ (last'.op = "list" /\ last'.err = "")
                => last'.ret = SelectSeq(Rows(tasks),
                                         LAMBDA r : r \in Range(last'.ret))
           /\ \A i, j \in 1..Len(added') :
                (i < j /\ added'[i] \in Keys(tasks') /\ added'[j] \in Keys(tasks'))
                    => IndexOf(tasks', added'[i]) < IndexOf(tasks', added'[j])
           /\ (last'.op = "load" /\ file.kind = "json")
                => KeyList(tasks') = KeyList(file.data)
           /\ last'.op \in {"update", "mark"} => KeyList(tasks') = KeyList(tasks)
           /\ KeyList(SaveThenLoad(tasks')) = KeyList(tasks')]_vars

\* C17: load never raises; when the file parses but is not in the expected
\* format (the top level is not a mapping, a value is not a mapping, or a
\* key is not a decimal integer), load reports CorruptedStorage and leaves
\* the tasks and the next-ID counter of the store as they were.
C17_LoadNeverRaises ==
    [][(IsCall /\ last'.op = "load")
        => /\ last'.err \in {"", "CorruptedStorage"}
           /\ (\/ file.kind \in {"nonmapping", "scalarvalue"}
               \/ /\ file.kind = "json"
                  /\ \E k \in Keys(file.data) : ~IsDecimal(k))
                => /\ last'.err = "CorruptedStorage"
                   /\ tasks' = tasks
                   /\ new_id' = new_id]_vars

\* C18: every task stored through the command loop has a non-empty
\* description, whatever line the add or the update command is given: the
\* command is rejected, or the description it stores is non-empty.
C18_DescriptionNonEmpty ==
    \A i \in 1..Len(tasks) : tasks[i][2][4] # <<>>

\* C19: with a cache file that is absent at first and written only by
\* save, the last key of the file is its numerically largest key, every add
\* returns an ID that is not in the store, the number of tasks grows by one
\* on each add, and add overwrites no task of the store.
C19_ClosedUniqueIds ==
    [][/\ (file'.kind = "json" /\ file'.data # <<>>)
            => ToInt(file'.data[Len(file'.data)][1]) = Max(KeyInts(file'.data))
       /\ (IsCall /\ last'.op = "add")
            => /\ last'.ret \notin Keys(tasks)
               /\ Len(tasks') = Len(tasks) + 1
               /\ \A k \in Keys(tasks) : DictGet(tasks', k) = DictGet(tasks, k)]_vars

\* an add on a store loaded from a file an earlier session left with a gap
C19_Witness ==
    /\ last.op = "add"
    /\ loads = 1
    /\ adds = 1
    /\ KeyList(tasks) = <<Str(1), Str(3), Str(4)>>
    /\ last.ret = Str(4)

\* C20: a command-loop session loads exactly once, at startup, and saves
\* exactly once, at exit or end of input; that save replaces the content of
\* the file with the whole store; so when the startup load found the file
\* corrupted, the file after exit holds exactly the tasks added during the
\* session and the corrupted content is gone.
C20_SessionProtocol ==
    [][IsCall
        => /\ last'.op = "load" <=> last.op = "construct"
           /\ last'.op # "construct" => loads' = 1
           /\ last.op = "save" => last'.op = "construct"
           /\ last'.op = "save"
                => /\ file' = Json(SaveData(tasks))
                   /\ LoadTasks(file'.data) = tasks
                   /\ file.kind = "invalid"
                        => Keys(file'.data) = Range(added) \ deleted]_vars

\* the session found the file corrupted, added a task and ended
C20_Witness ==
    /\ last.op = "save"
    /\ loads = 1
    /\ snap.over = "invalid"
    /\ added # <<>>
    /\ tasks # <<>>
    /\ file = Json(SaveData(tasks))

====
